---- MODULE Spec2Model ----
(***************************************************************************)
(* The chart proxy of mcp-unhcrtheme: the tool-call handler of src/main.py *)
(* (function based) and of src/mcp_fastapi_chart/server.py (class based).  *)
(*                                                                         *)
(* One invocation of handle_call_tool is a coroutine.  It runs without     *)
(* interruption from one await to the next, so an invocation is modelled   *)
(* as two steps: HandleCallTool (dispatch, validation, opening the HTTP    *)
(* client and issuing the request, up to the await of client.post/get)     *)
(* and the resumption (GenerateChartResume / CheckStatusResume: the await  *)
(* ends with the outcome the remote service or the network gives the       *)
(* request, then the code after the await, the except clauses, leaving     *)
(* the `async with` block and the return).  The invocations CallIds run    *)
(* concurrently in every interleaving of these steps.                      *)
(*                                                                         *)
(* Texts are sequences of tokens: a literal fragment of the source is one  *)
(* token, a character of caller- or remote-supplied data is one token.     *)
(* Bytes are integers 0..255.                                              *)
(***************************************************************************)
EXTENDS Integers, Sequences, FiniteSets, TLC

\* Number of invocations of handle_call_tool, all of which may overlap.
MaxCalls == 2

\* Longest response body the remote service sends, in bytes.
MaxBodyLen == 2

\* Timeout given to client.post and to client.get.
ChartTimeout == 30
StatusTimeout == 5

Impls == {"main", "server"}

CallIds == 1..MaxCalls

(***************************************************************************)
(* Text and byte helpers                                                   *)
(***************************************************************************)

\* s in t, as Python's substring test on the strings the tokens spell.
Contains(t, s) ==
    \E i \in 0..(Len(t) - Len(s)) : SubSeq(t, i + 1, i + Len(s)) = s

DigitChars == <<"0", "1", "2", "3", "4", "5", "6", "7", "8", "9">>

\* An f-string's conversion of a non-negative int: its decimal digits.
RECURSIVE IntToStr(_)
IntToStr(n) ==
    IF n < 10 THEN <<DigitChars[n + 1]>>
    ELSE IntToStr(n \div 10) \o <<DigitChars[(n % 10) + 1]>>

\* chr(32) .. chr(126); the grave accent, which the lexer does not take in a
\* string, is written U+96.
AsciiPrintable ==
    <<" ", "!", "\"", "#", "$", "%", "&", "'", "(", ")", "*", "+", ",", "-",
      ".", "/", "0", "1", "2", "3", "4", "5", "6", "7", "8", "9", ":", ";",
      "<", "=", ">", "?", "@", "A", "B", "C", "D", "E", "F", "G", "H", "I",
      "J", "K", "L", "M", "N", "O", "P", "Q", "R", "S", "T", "U", "V", "W",
      "X", "Y", "Z", "[", "\\", "]", "^", "_", "U+96", "a", "b", "c", "d", "e",
      "f", "g", "h", "i", "j", "k", "l", "m", "n", "o", "p", "q", "r", "s",
      "t", "u", "v", "w", "x", "y", "z", "{", "|", "}", "~">>

\* The character one byte decodes to.  response.text decodes with
\* errors="replace": a byte that starts no valid UTF-8 sequence becomes
\* U+FFFD.  Multi-byte sequences are not modelled: every byte >= 128 is
\* replaced, which is what UTF-8 does to the bodies of ResponseBodies.
Chr(b) ==
    IF b \in 32..126 THEN AsciiPrintable[b - 31]
    ELSE IF b < 128 THEN "U+" \o ToString(b)
    ELSE "U+FFFD"

\* response.text
DecodeText(content) == [i \in 1..Len(content) |-> Chr(content[i])]

B64Alphabet ==
    <<"A", "B", "C", "D", "E", "F", "G", "H", "I", "J", "K", "L", "M", "N",
      "O", "P", "Q", "R", "S", "T", "U", "V", "W", "X", "Y", "Z", "a", "b",
      "c", "d", "e", "f", "g", "h", "i", "j", "k", "l", "m", "n", "o", "p",
      "q", "r", "s", "t", "u", "v", "w", "x", "y", "z", "0", "1", "2", "3",
      "4", "5", "6", "7", "8", "9", "+", "/">>

B64Char(v) == B64Alphabet[v + 1]

\* base64.b64encode(content).decode('utf-8'): three bytes make four
\* characters, a last group of one or two bytes is padded with "=".
RECURSIVE b64encode(_)
b64encode(bytes) ==
    IF Len(bytes) = 0 THEN <<>>
    ELSE IF Len(bytes) = 1 THEN
        <<B64Char(bytes[1] \div 4), B64Char((bytes[1] % 4) * 16), "=", "=">>
    ELSE IF Len(bytes) = 2 THEN
        <<B64Char(bytes[1] \div 4),
          B64Char((bytes[1] % 4) * 16 + (bytes[2] \div 16)),
          B64Char((bytes[2] % 16) * 4), "=">>
    ELSE
        <<B64Char(bytes[1] \div 4),
          B64Char((bytes[1] % 4) * 16 + (bytes[2] \div 16)),
          B64Char((bytes[2] % 16) * 4 + (bytes[3] \div 64)),
          B64Char(bytes[3] % 64)>>
        \o b64encode(SubSeq(bytes, 4, Len(bytes)))

\* The decoder a client applies to the image payload (not part of the
\* program): four characters make three bytes, "=" marks a missing byte.
B64Value(ch) == CHOOSE v \in 0..63 : B64Alphabet[v + 1] = ch

RECURSIVE b64decode(_)
b64decode(chars) ==
    IF Len(chars) < 4 THEN <<>>
    ELSE
        LET v1 == B64Value(chars[1])
            v2 == B64Value(chars[2])
            b1 == v1 * 4 + (v2 \div 16)
            rest == b64decode(SubSeq(chars, 5, Len(chars)))
        IN  IF chars[3] = "=" THEN <<b1>> \o rest
            ELSE
                LET v3 == B64Value(chars[3])
                    b2 == (v2 % 16) * 16 + (v3 \div 4)
                IN  IF chars[4] = "=" THEN <<b1, b2>> \o rest
                    ELSE <<b1, b2, (v3 % 4) * 64 + B64Value(chars[4])>>
                         \o rest

\* The prefixes of a byte string, the string itself among them.
Prefixes(bytes) == {SubSeq(bytes, 1, n) : n \in 0..Len(bytes)}

(***************************************************************************)
(* Tool arguments                                                          *)
(***************************************************************************)

FieldNames == {"chart_type", "title", "subtitle", "data", "x_label", "y_label"}

StrFields == FieldNames \ {"data"}

\* JSON values as the handler sees them.  `keys` are a JSON object's keys.
Absent == [type |-> "absent", text |-> <<>>, keys |-> {}]
StrVal(t) == [type |-> "str", text |-> t, keys |-> {}]
DictVal(ks) == [type |-> "dict", text |-> <<>>, keys |-> ks]
ListVal == [type |-> "list", text |-> <<>>, keys |-> {}]

NoFields == [f \in FieldNames |-> Absent]

\* `arguments: dict | None`
NoneArguments == [kind |-> "None", fields |-> NoFields]
DictArguments(fs) == [kind |-> "dict", fields |-> fs]

\* What was not passed at all (the callee was never entered).
NotPassed == [kind |-> "unset", fields |-> NoFields]

QuarterlyBar ==
    [chart_type |-> StrVal(<<"b", "a", "r">>),
     title |-> StrVal(<<"Q", "1">>),
     subtitle |-> StrVal(<<"s">>),
     data |-> DictVal({"labels", "values"}),
     x_label |-> StrVal(<<"x">>),
     y_label |-> StrVal(<<"y">>)]

\* A request the input schema rules out (chart_type outside the enum, data
\* without "values") whose fields all have the types ChartRequest declares.
HistogramNoValues ==
    [QuarterlyBar EXCEPT !.chart_type =
                             StrVal(<<"h", "i", "s", "t", "o", "g", "r", "a", "m">>),
                         !.title = StrVal(<<"T">>),
                         !.data = DictVal({"labels"})]

ChartArgumentSamples ==
    {NoneArguments,
     DictArguments(QuarterlyBar),
     DictArguments(HistogramNoValues),
     DictArguments([QuarterlyBar EXCEPT !.data = Absent]),
     DictArguments([QuarterlyBar EXCEPT !.data = ListVal])}

StatusArgumentSamples == {NoneArguments, DictArguments(QuarterlyBar)}

ToolNames == {"generate_chart", "check_fastapi_status", "check_status"}

ArgumentSamples(name) ==
    IF name = "generate_chart" THEN ChartArgumentSamples
    ELSE StatusArgumentSamples

(***************************************************************************)
(* The program's constants and pure parts                                  *)
(***************************************************************************)

\* FASTAPI_BASE_URL (main.py) and self.fastapi_base_url (server.py).
BaseUrl(i) ==
    IF i = "main" THEN <<"https://", "unhcrpyplot.rvibek.com.np", "/">>
    ELSE <<"http://", "localhost:8000">>

\* f"{base_url}/plot" and f"{base_url}/"
PlotUrl(i) == BaseUrl(i) \o <<"/plot">>
RootUrl(i) == BaseUrl(i) \o <<"/">>

\* A validation that only asks for a mapping (fields checked nowhere).
AcceptsAnyMapping(arguments) == arguments.kind = "dict"

\* ChartRequest(**arguments): every field is required, the five text fields
\* are str and data is a Dict[str, Any].  Nothing else is checked.
ChartRequestAccepts(arguments) ==
    /\ arguments.kind = "dict"
    /\ \A f \in StrFields : arguments.fields[f].type = "str"
    /\ arguments.fields["data"].type = "dict"

\* The exception ChartRequest(**arguments) raises, and str() of it.
ConstructionError(arguments) ==
    IF arguments.kind # "dict" THEN "TypeError" ELSE "ValidationError"

ConstructionMessage(arguments) ==
    IF arguments.kind # "dict"
    THEN <<"ChartRequest() argument after ** must be a mapping, not NoneType">>
    ELSE <<"1 validation error for ChartRequest">>

\* chart_request.dict(): the json body of the POST.
RequestDict(arguments) == arguments.fields

\* types.TextContent and types.ImageContent
TextContent(t) == [type |-> "text", text |-> t, data |-> <<>>, mimeType |-> ""]
ImageContent(d, m) == [type |-> "image", text |-> <<>>, data |-> d, mimeType |-> m]

\* What the await of client.post / client.get ends with: a response, or an
\* exception of httpx (ConnectError, a TimeoutException) or any other one.
Response(s, b) ==
    [kind |-> "response", status_code |-> s, content |-> b, message |-> <<>>]
Raised(k, msg) ==
    [kind |-> k, status_code |-> 0, content |-> <<>>, message |-> msg]
NoOutcome == Raised("none", <<>>)
\* Every 2xx status taken for success.
IsAny2xx(status_code) == status_code \in 200..299

\* Everything but a server error taken for success.
IsBelow500(status_code) == status_code < 500

\* `response.status_code == 200`
IsSuccess(status_code) == status_code = 200
\* `except httpx.HTTPError` in place of `except Exception`: only httpx's own
\* exceptions are taken.
ExceptHttpxOnly(kind) ==
    IF kind = "ConnectError" THEN "ConnectError"
    ELSE IF kind \in {"ReadTimeout", "ReadError"} THEN "Exception"
    ELSE "none"

\* The two except clauses in the other order: `except Exception` first.
ExceptGenericFirst(kind) == "Exception"

\* Which except clause takes an exception: `except httpx.ConnectError` comes
\* first, `except Exception` takes every other exception raised in the try.
ExceptClause(kind) ==
    IF kind = "ConnectError" THEN "ConnectError" ELSE "Exception"

\* The return statements of _generate_chart.
ChartSuccess(title, content) ==
    <<TextContent(<<"Chart generated successfully: ">> \o title),
      ImageContent(b64encode(content), "image/png")>>

ChartHttpError(status_code, content) ==
    <<TextContent(<<"Error generating chart: ">> \o IntToStr(status_code)
                  \o <<" - ">> \o DecodeText(content))>>

ChartConnectError(i) ==
    <<TextContent(
        IF i = "main"
        THEN <<"Error: Could not connect to FastAPI server. Make sure it's accessible at ">>
             \o <<"https://", "unhcrpyplot.rvibek.com.np", "/">>
        ELSE <<"Error: Could not connect to FastAPI server. Make sure it's running on ">>
             \o <<"localhost:8000">>)>>

ChartException(message) ==
    <<TextContent(<<"Error generating chart: ">> \o message)>>

\* The return statements of _check_fastapi_status.
StatusSuccess ==
    <<TextContent(<<"FastAPI ", "server is running and accessible">>)>>

StatusHttpError(status_code) ==
    <<TextContent(<<"FastAPI ", "server responded with status: ">>
                  \o IntToStr(status_code))>>

StatusConnectError(i) ==
    <<TextContent(
        IF i = "main"
        THEN <<"FastAPI ", "server is not accessible. Make sure it's accessible at ">>
             \o <<"https://", "unhcrpyplot.rvibek.com.np", "/">>
        ELSE <<"FastAPI ", "server is not accessible. Make sure it's running on ">>
             \o <<"localhost:8000">>)>>

StatusException(message) ==
    <<TextContent(<<"Error checking FastAPI status: ">> \o message)>>
\* An if / else that sends every other name to the status check.
DispatchElseStatus(name) ==
    IF name = "generate_chart" THEN "chart" ELSE "status"

\* handle_call_tool's if / elif / else on the tool name.
Dispatch(name) ==
    IF name = "generate_chart" THEN "chart"
    ELSE IF name = "check_fastapi_status" THEN "status"
    ELSE "unknown"

\* f"Unknown tool: {name}"
UnknownToolMessage(name) == <<"Unknown tool: ", name>>
\* One module-level client shared by every invocation.
SharedClient(c) == 1

\* httpx.AsyncClient(): a new client object for the invocation that runs the
\* `async with`; the object is named after that invocation.
NewClient(c) == c
\* delete=True, the default of NamedTemporaryFile.
DeletedOnClose(file) == FALSE

\* tempfile.NamedTemporaryFile(suffix='.png', delete=False): whether the
\* file is still there once the `with` block has closed it.
KeptAfterClose(file) == TRUE

(***************************************************************************)
(* The environment: what the remote service and the file system may do     *)
(***************************************************************************)

PngSignature == <<137, 80, 78, 71, 13, 10, 26, 10>>

\* Response bodies: the first bytes of a PNG file, up to MaxBodyLen of them.
ResponseBodies == {SubSeq(PngSignature, 1, n) : n \in 0..MaxBodyLen}

StatusCodes == {200, 201, 503}

\* The bodies of the answers to a request.  _check_fastapi_status reads
\* nothing but the status of the answer to its GET, so one body stands for
\* all of them there.
BodiesFor(method) == IF method = "GET" THEN {<<>>} ELSE ResponseBodies

\* How a request ends.  An unreachable host refuses the connection; a
\* reachable one answers, or the request times out, or the connection
\* breaks while the response is read.
RemoteOutcomes(hostUp, method) ==
    IF ~hostUp
    THEN {Raised("ConnectError", <<"All connection attempts failed">>)}
    ELSE {Response(s, b) : s \in StatusCodes, b \in BodiesFor(method)}
         \cup {Raised("ReadTimeout", <<>>),
               Raised("ReadError", <<"Server disconnected">>)}

\* What the await ends with on a client in state `state`: the outcome of the
\* request, or the error httpx raises for a client that has been closed.
AwaitOutcome(state, o) ==
    IF state = "open" THEN o
    ELSE Raised("RuntimeError",
                <<"Cannot send a request, as the client has been closed.">>)

\* How writing the temporary file ends: written in full; not created at all;
\* or created and the write failed, leaving less than the whole content.
WriteOutcomes(content) ==
    {[created |-> TRUE, failed |-> FALSE, content |-> content],
     [created |-> FALSE, failed |-> TRUE, content |-> <<>>]}
    \cup {[created |-> TRUE, failed |-> TRUE, content |-> p] :
             p \in (Prefixes(content) \ {content}) \cup {<<>>}}

OSErrorMessage == <<"[Errno 28] No space left on device">>

(***************************************************************************)
(* State                                                                   *)
(***************************************************************************)

VARIABLES
    impl,      \* which of the two implementations runs
    calls,     \* the invocations of handle_call_tool
    clients,   \* the httpx.AsyncClient objects
    outbound,  \* the HTTP requests issued so far
    files      \* the temporary files on disk

vars == <<impl, calls, clients, outbound, files>>

IdleCall ==
    [pc |-> "idle",            \* idle, awaiting, done (returned), raised
     name |-> "",
     arguments |-> NoneArguments,
     hostUp |-> TRUE,          \* whether the remote host is reachable for it
     path |-> "",              \* the branch handle_call_tool took
     passed |-> NotPassed,     \* what _generate_chart received
     client |-> 0,             \* the client it opened, 0 when none
     nreq |-> 0,               \* calls of client.post / client.get it made
     outcome |-> NoOutcome,    \* how the remote ended its request
     wrote |-> "none",         \* none, ok, createfail, writefail
     result |-> <<>>,          \* the list it returned
     raised |-> <<>>]          \* str() of the exception it raised

NoClient == [state |-> "unopened", owner |-> 0]

Init ==
    /\ impl \in Impls
    /\ calls = [c \in CallIds |-> IdleCall]
    /\ clients = [k \in CallIds |-> NoClient]
    /\ outbound = {}
    /\ files = {}

(***************************************************************************)
(* The handlers                                                            *)
(***************************************************************************)

\* The end of a try block on an exception of class `kind`: the matching
\* except clause returns its text; with no matching clause it propagates.
ChartExcept(call, kind, message) ==
    LET clause == ExceptClause(kind)
    IN  IF clause = "ConnectError"
        THEN [call EXCEPT !.pc = "done", !.result = ChartConnectError(impl)]
        ELSE IF clause = "Exception"
        THEN [call EXCEPT !.pc = "done", !.result = ChartException(message)]
        ELSE [call EXCEPT !.pc = "raised", !.raised = <<kind>> \o message]

StatusExcept(call, kind, message) ==
    LET clause == ExceptClause(kind)
    IN  IF clause = "ConnectError"
        THEN [call EXCEPT !.pc = "done", !.result = StatusConnectError(impl)]
        ELSE IF clause = "Exception"
        THEN [call EXCEPT !.pc = "done", !.result = StatusException(message)]
        ELSE [call EXCEPT !.pc = "raised", !.raised = <<kind>> \o message]

\* `async with httpx.AsyncClient() as client:` followed by the request,
\* up to the await.
OpenAndSend(c, call, method, url, json, timeout) ==
    LET k == NewClient(c)
    IN  /\ clients' = [clients EXCEPT
                          ![k] = [state |-> "open", owner |-> c]]
        /\ outbound' = outbound \cup
                          {[call |-> c, client |-> k, method |-> method,
                            url |-> url, json |-> json, timeout |-> timeout]}
        /\ calls' = [calls EXCEPT
                        ![c] = [call EXCEPT !.pc = "awaiting", !.client = k,
                                            !.nreq = @ + 1]]

\* _generate_chart up to `await client.post(...)`.
GenerateChartStart(c, call) ==
    LET entered == [call EXCEPT !.passed = call.arguments]
    IN  IF ChartRequestAccepts(entered.passed)
        THEN OpenAndSend(c, entered, "POST", PlotUrl(impl),
                         RequestDict(entered.passed), ChartTimeout)
        ELSE /\ calls' = [calls EXCEPT
                             ![c] = ChartExcept(entered,
                                        ConstructionError(entered.passed),
                                        ConstructionMessage(entered.passed))]
             /\ UNCHANGED <<clients, outbound>>

\* _check_fastapi_status up to `await client.get(...)`.
CheckStatusStart(c, call) ==
    OpenAndSend(c, call, "GET", RootUrl(impl), NoFields, StatusTimeout)

\* handle_call_tool(name, arguments), up to the first await of the branch.
HandleCallTool(c, name, arguments, hostUp) ==
    /\ calls[c].pc = "idle"
    /\ LET call == [calls[c] EXCEPT !.name = name, !.arguments = arguments,
                                    !.hostUp = hostUp,
                                    !.path = Dispatch(name)]
       IN  IF call.path = "chart" THEN GenerateChartStart(c, call)
           ELSE IF call.path = "status" THEN CheckStatusStart(c, call)
           ELSE /\ calls' = [calls EXCEPT
                                ![c] = [call EXCEPT
                                           !.pc = "raised",
                                           !.raised = <<"ValueError">>
                                               \o UnknownToolMessage(name)]]
                /\ UNCHANGED <<clients, outbound>>
    /\ UNCHANGED <<impl, files>>

\* _generate_chart from the await of client.post, which ends with outcome
\* o of its request, to its return.
GenerateChartResume(c, o) ==
    LET k == calls[c].client
        ans == AwaitOutcome(clients[k].state, o)
        call == [calls[c] EXCEPT !.outcome = o]
    IN  /\ calls[c].pc = "awaiting"
        /\ calls[c].path = "chart"
        /\ o \in RemoteOutcomes(calls[c].hostUp, "POST")
        /\ IF ans.kind = "response" /\ IsSuccess(ans.status_code)
              /\ impl = "server"
           THEN \E w \in WriteOutcomes(ans.content) :
                   LET file == [name |-> c, suffix |-> ".png",
                                content |-> w.content]
                       after == [call EXCEPT
                                    !.wrote = IF ~w.failed THEN "ok"
                                              ELSE IF w.created THEN "writefail"
                                              ELSE "createfail"]
                   IN  /\ files' = IF w.created /\ KeptAfterClose(file)
                                   THEN files \cup {file} ELSE files
                       /\ calls' = [calls EXCEPT ![c] =
                              IF w.failed
                              THEN ChartExcept(after, "OSError", OSErrorMessage)
                              ELSE [after EXCEPT
                                      !.pc = "done",
                                      !.result = ChartSuccess(
                                          call.passed.fields["title"].text,
                                          ans.content)]]
           ELSE /\ files' = files
                /\ calls' = [calls EXCEPT ![c] =
                       IF ans.kind # "response"
                       THEN ChartExcept(call, ans.kind, ans.message)
                       ELSE IF IsSuccess(ans.status_code)
                       THEN [call EXCEPT
                               !.pc = "done",
                               !.result = ChartSuccess(
                                   call.passed.fields["title"].text,
                                   ans.content)]
                       ELSE [call EXCEPT
                               !.pc = "done",
                               !.result = ChartHttpError(ans.status_code,
                                                         ans.content)]]
        /\ clients' = [clients EXCEPT ![k].state = "closed"]
        /\ UNCHANGED <<impl, outbound>>

\* _check_fastapi_status from the await of client.get, which ends with
\* outcome o of its request, to its return.
CheckStatusResume(c, o) ==
    LET k == calls[c].client
        ans == AwaitOutcome(clients[k].state, o)
        call == [calls[c] EXCEPT !.outcome = o]
    IN  /\ calls[c].pc = "awaiting"
        /\ calls[c].path = "status"
        /\ o \in RemoteOutcomes(calls[c].hostUp, "GET")
        /\ calls' = [calls EXCEPT ![c] =
               IF ans.kind # "response"
               THEN StatusExcept(call, ans.kind, ans.message)
               ELSE IF IsSuccess(ans.status_code)
               THEN [call EXCEPT !.pc = "done", !.result = StatusSuccess]
               ELSE [call EXCEPT
                       !.pc = "done",
                       !.result = StatusHttpError(ans.status_code)]]
        /\ clients' = [clients EXCEPT ![k].state = "closed"]
        /\ UNCHANGED <<impl, outbound, files>>

Next ==
    \/ \E c \in CallIds, name \in ToolNames, hostUp \in BOOLEAN :
          \E arguments \in ArgumentSamples(name) :
             HandleCallTool(c, name, arguments, hostUp)
    \/ \E c \in CallIds :
          \E o \in RemoteOutcomes(calls[c].hostUp, "POST") :
             GenerateChartResume(c, o)
    \/ \E c \in CallIds :
          \E o \in RemoteOutcomes(calls[c].hostUp, "GET") :
             CheckStatusResume(c, o)

Spec == Init /\ [][Next]_vars

(***************************************************************************)
(* What the specification says of the program                              *)
(***************************************************************************)

\* A valid ChartRequest, as the specification's data model has it: a mapping
\* that gives every one of the six fields, the text fields as strings and
\* data as a mapping.
WellFormed(arguments) ==
    /\ arguments.kind = "dict"
    /\ \A f \in FieldNames :
          arguments.fields[f].type = (IF f = "data" THEN "dict" ELSE "str")

\* The enum of chart_type and the required keys of data in the tool's
\* inputSchema.
ChartTypeEnum ==
    {<<"l", "i", "n", "e">>, <<"b", "a", "r">>,
     <<"s", "c", "a", "t", "t", "e", "r">>, <<"p", "i", "e">>}

RequiredDataKeys == {"labels", "values"}

MeetsInputConstraints(arguments) ==
    /\ WellFormed(arguments)
    /\ arguments.fields["chart_type"].text \in ChartTypeEnum
    /\ RequiredDataKeys \subseteq arguments.fields["data"].keys

\* host[:port] of the configured base URL.
Authority(i) == <<BaseUrl(i)[2]>>

Started(c) == calls[c].pc # "idle"
Returned(c) == calls[c].pc = "done"
IsChartCall(c) == Started(c) /\ calls[c].name = "generate_chart"
IsStatusCall(c) == Started(c) /\ calls[c].name = "check_fastapi_status"
Answered(c, codes) ==
    /\ calls[c].outcome.kind = "response"
    /\ calls[c].outcome.status_code \in codes

OneText(result) == Len(result) = 1 /\ result[1].type = "text"

\* C1: a generate_chart or check_status invocation never ends by raising;
\* once it has returned, its result is a non-empty list whose first element
\* is a text content with a non-empty text.
C1_NeverRaises ==
    \A c \in CallIds :
        (IsChartCall(c) \/ IsStatusCall(c)) =>
            /\ calls[c].pc \in {"awaiting", "done"}
            /\ calls[c].raised = <<>>
            /\ Returned(c) =>
                  /\ Len(calls[c].result) >= 1
                  /\ calls[c].result[1].type = "text"
                  /\ calls[c].result[1].text # <<>>

\* generate_chart(None) has returned a text, and another generate_chart whose
\* temporary file could not be written has returned a text as well.
C1_Witness ==
    \E c, d \in CallIds :
        /\ IsChartCall(c) /\ Returned(c)
        /\ calls[c].arguments = NoneArguments
        /\ OneText(calls[c].result)
        /\ IsChartCall(d) /\ Returned(d)
        /\ calls[d].wrote \in {"createfail", "writefail"}
        /\ OneText(calls[d].result)

\* C2 as stated: every generate_chart invocation that has returned issued
\* exactly one outbound request, whatever its arguments.
C2_Original ==
    \A c \in CallIds :
        (IsChartCall(c) /\ Returned(c)) => calls[c].nreq = 1

\* C2, amended: a generate_chart invocation issues exactly one request, a
\* POST to <base_url>/plot, when its arguments are a valid ChartRequest, and
\* none when they are not; it never issues a second one.
C2_OneRequestWhenValid ==
    \A c \in CallIds :
        IsChartCall(c) =>
            LET mine == {r \in outbound : r.call = c}
            IN  /\ calls[c].nreq =
                      (IF WellFormed(calls[c].arguments) THEN 1 ELSE 0)
                /\ Cardinality(mine) = calls[c].nreq
                /\ \A r \in mine :
                      /\ r.method = "POST"
                      /\ r.url = BaseUrl(impl) \o <<"/plot">>
                      /\ r.json = calls[c].arguments.fields

\* A valid request timed out and the invocation returned after that one
\* request, while an invalid one returned without any.
C2_Witness ==
    \E c, d \in CallIds :
        /\ IsChartCall(c) /\ Returned(c)
        /\ calls[c].outcome.kind = "ReadTimeout"
        /\ calls[c].nreq = 1
        /\ IsChartCall(d) /\ Returned(d)
        /\ ~WellFormed(calls[d].arguments)
        /\ calls[d].nreq = 0

\* C3: for a valid ChartRequest answered with status 200 and body B,
\* generate_chart returns the text "Chart generated successfully: " + title
\* and then an image/png content whose data is base64(B) and decodes to B.
C3_SuccessResult ==
    \A c \in CallIds :
        (/\ IsChartCall(c) /\ Returned(c)
         /\ WellFormed(calls[c].arguments)
         /\ Answered(c, {200})) =>
            LET result == calls[c].result
                B == calls[c].outcome.content
            IN  /\ Len(result) = 2
                /\ result[1] =
                      TextContent(<<"Chart generated successfully: ">>
                                  \o calls[c].arguments.fields["title"].text)
                /\ result[2].type = "image"
                /\ result[2].mimeType = "image/png"
                /\ result[2].data = b64encode(B)
                /\ b64decode(result[2].data) = B

\* C4: for a valid ChartRequest answered with a status S other than 200 and
\* a body whose text is T, generate_chart returns one text content, whose
\* text contains S and T, and no image.
C4_HttpErrorResult ==
    \A c \in CallIds :
        (/\ IsChartCall(c) /\ Returned(c)
         /\ WellFormed(calls[c].arguments)
         /\ Answered(c, StatusCodes \ {200})) =>
            LET result == calls[c].result
                S == IntToStr(calls[c].outcome.status_code)
                T == DecodeText(calls[c].outcome.content)
            IN  /\ OneText(result)
                /\ Contains(result[1].text, S)
                /\ Contains(result[1].text, T)
                /\ \A i \in 1..Len(result) : result[i].type # "image"

\* A 201 answer with a body of at least one byte has been turned into a
\* result.
C4_Witness ==
    \E c \in CallIds :
        /\ IsChartCall(c) /\ Returned(c)
        /\ WellFormed(calls[c].arguments)
        /\ Answered(c, {201})
        /\ Len(calls[c].outcome.content) >= 1
        /\ OneText(calls[c].result)

\* C5 as stated: whenever the remote host is unreachable, generate_chart
\* returns one text that names the configured base URL, the same one for
\* every arguments value.
C5_Original ==
    \A c, d \in CallIds :
        (/\ IsChartCall(c) /\ Returned(c) /\ ~calls[c].hostUp
         /\ IsChartCall(d) /\ Returned(d) /\ ~calls[d].hostUp) =>
            /\ OneText(calls[c].result)
            /\ Contains(calls[c].result[1].text, Authority(impl))
            /\ calls[c].result = calls[d].result

\* C5, amended: when the connection to the remote host fails, generate_chart
\* returns one text that names the configured base URL, the same one for
\* every arguments value that is a valid ChartRequest; arguments that are
\* not one yield the validation text without any connection attempt.
C5_ConnectFailureMessage ==
    \A c, d \in CallIds :
        (/\ IsChartCall(c) /\ Returned(c) /\ ~calls[c].hostUp
         /\ IsChartCall(d) /\ Returned(d) /\ ~calls[d].hostUp) =>
            IF WellFormed(calls[c].arguments)
            THEN /\ calls[c].outcome.kind = "ConnectError"
                 /\ OneText(calls[c].result)
                 /\ Contains(calls[c].result[1].text, Authority(impl))
                 /\ WellFormed(calls[d].arguments) =>
                       calls[c].result = calls[d].result
            ELSE /\ calls[c].nreq = 0
                 /\ OneText(calls[c].result)
                 /\ calls[c].result[1].text[1] = "Error generating chart: "
                 /\ ~Contains(calls[c].result[1].text, Authority(impl))

\* Two valid requests of different contents have both met an unreachable
\* host and returned.
C5_Witness ==
    \E c, d \in CallIds :
        /\ IsChartCall(c) /\ Returned(c) /\ ~calls[c].hostUp
        /\ IsChartCall(d) /\ Returned(d) /\ ~calls[d].hostUp
        /\ WellFormed(calls[c].arguments) /\ WellFormed(calls[d].arguments)
        /\ calls[c].arguments # calls[d].arguments
        /\ calls[c].outcome.kind = "ConnectError"
        /\ calls[d].outcome.kind = "ConnectError"

\* C6 as stated: on status 200 the text of check_status is exactly
\* "server is running and accessible".
C6_Original ==
    \A c \in CallIds :
        (IsStatusCall(c) /\ Returned(c) /\ Answered(c, {200})) =>
            /\ OneText(calls[c].result)
            /\ calls[c].result[1].text = <<"server is running and accessible">>

\* C6, amended: on status 200 the text of check_status is exactly
\* "FastAPI server is running and accessible"; on any other status the
\* result is one text content whose text contains the status code.
C6_StatusMapping ==
    \A c \in CallIds :
        (IsStatusCall(c) /\ Returned(c) /\ Answered(c, StatusCodes)) =>
            /\ OneText(calls[c].result)
            /\ IF calls[c].outcome.status_code = 200
               THEN calls[c].result[1].text =
                       <<"FastAPI ", "server is running and accessible">>
               ELSE Contains(calls[c].result[1].text,
                             IntToStr(calls[c].outcome.status_code))

\* One check_status was answered 200 and another 503, and both returned.
C6_Witness ==
    \E c, d \in CallIds :
        /\ IsStatusCall(c) /\ Returned(c) /\ Answered(c, {200})
        /\ IsStatusCall(d) /\ Returned(d) /\ Answered(d, {503})
        /\ Contains(calls[d].result[1].text, <<"5", "0", "3">>)

\* C7: a generate_chart request whose chart_type is outside {line, bar,
\* scatter, pie}, or whose data lacks labels or values, is never sent to the
\* remote service, and the invocation returns a validation-failure text.
C7_OnlyConstrainedRequestsSent ==
    \A c \in CallIds :
        (IsChartCall(c) /\ ~MeetsInputConstraints(calls[c].arguments)) =>
            /\ calls[c].nreq = 0
            /\ \A r \in outbound : r.call # c
            /\ Returned(c)
            /\ OneText(calls[c].result)
            /\ calls[c].result[1].text[1] = "Error generating chart: "
            /\ calls[c].outcome = NoOutcome

\* The result an invocation returns when it runs alone with its arguments,
\* the outcome the remote gave its own request and the outcome of its own
\* file write.
AloneResult(call) ==
    IF call.path = "chart"
    THEN IF ~WellFormed(call.arguments)
         THEN ChartException(ConstructionMessage(call.arguments))
         ELSE IF call.outcome.kind = "ConnectError"
         THEN ChartConnectError(impl)
         ELSE IF call.outcome.kind # "response"
         THEN ChartException(call.outcome.message)
         ELSE IF call.outcome.status_code # 200
         THEN ChartHttpError(call.outcome.status_code, call.outcome.content)
         ELSE IF call.wrote \in {"createfail", "writefail"}
         THEN ChartException(OSErrorMessage)
         ELSE ChartSuccess(call.arguments.fields["title"].text,
                           call.outcome.content)
    ELSE IF call.outcome.kind = "ConnectError"
         THEN StatusConnectError(impl)
         ELSE IF call.outcome.kind # "response"
         THEN StatusException(call.outcome.message)
         ELSE IF call.outcome.status_code # 200
         THEN StatusHttpError(call.outcome.status_code)
         ELSE StatusSuccess

\* C8: in every interleaving, an invocation that has returned returned what
\* it returns when run alone with the same arguments and the same remote
\* answer; the client it used was opened by it, is used by no other
\* invocation, is open while it waits and closed once it has returned.
C8_Independent ==
    \A c \in CallIds :
        (IsChartCall(c) \/ IsStatusCall(c)) =>
            /\ Returned(c) => calls[c].result = AloneResult(calls[c])
            /\ calls[c].client # 0 =>
                  /\ clients[calls[c].client].owner = c
                  /\ \A d \in CallIds \ {c} :
                        calls[d].client # calls[c].client
                  /\ clients[calls[c].client].state =
                        (IF Returned(c) THEN "closed" ELSE "open")

\* One invocation has returned a chart, its client closed, while another,
\* sent with other arguments, still waits on its own open client.
C8_Witness ==
    \E c, d \in CallIds :
        /\ IsChartCall(c) /\ Returned(c) /\ Len(calls[c].result) = 2
        /\ IsChartCall(d) /\ calls[d].pc = "awaiting"
        /\ calls[d].arguments # calls[c].arguments
        /\ calls[d].client # calls[c].client
        /\ clients[calls[d].client].state = "open"
        /\ clients[calls[c].client].state = "closed"

\* The generate_chart invocations answered with status 200 that returned.
Answered200 ==
    {c \in CallIds : IsChartCall(c) /\ Returned(c) /\ Answered(c, {200})}

C10_Dispatch ==
    \A c \in CallIds :
        Started(c) =>
            /\ calls[c].path = "chart" <=> calls[c].name = "generate_chart"
            /\ calls[c].path = "status" <=>
                  calls[c].name = "check_fastapi_status"
            /\ calls[c].path = "chart" =>
                  calls[c].passed = calls[c].arguments
            /\ calls[c].path = "status" => calls[c].passed = NotPassed
            /\ calls[c].path \notin {"chart", "status"} =>
                  /\ calls[c].pc = "raised"
                  /\ calls[c].raised =
                        <<"ValueError", "Unknown tool: ", calls[c].name>>
                  /\ calls[c].result = <<>>
                  /\ calls[c].nreq = 0
                  /\ calls[c].client = 0
                  /\ \A r \in outbound : r.call # c

\* "check_status", which is no tool name, was called with arguments and
\* raised, while a check_fastapi_status called with arguments went out.
C10_Witness ==
    \E c, d \in CallIds :
        /\ calls[c].name = "check_status" /\ calls[c].pc = "raised"
        /\ calls[c].arguments # NoneArguments
        /\ IsStatusCall(d) /\ calls[d].arguments # NoneArguments
        /\ calls[d].nreq = 1

====
